---- MODULE Spec2Model ----
(***************************************************************************)
(* Model of limbo's simulator property generator                           *)
(* (simulator/generation/property.rs): the budget tracker `remaining`,     *)
(* the weighted dispatch in Property::arbitrary_from, the two property     *)
(* generators with their filler filters, and the compiler                  *)
(* Property::interactions, together with the driver that runs a compiled   *)
(* script against a reference database.                                    *)
(*                                                                         *)
(* f64 quantities (budgets, weights, the draw) are fixed-point integers    *)
(* counted in 1/Unit.  row_index is 0-based as in the source; sequences    *)
(* are 1-based, so row i of an insert is values[i + 1].                    *)
(***************************************************************************)
EXTENDS Integers, Sequences, FiniteSets, TLC

VARIABLES env, stats, rem, weights, prop, origin, attempted, candidates,
          script, db, stack, outcome, pc

vars == <<env, stats, rem, weights, prop, origin, attempted, candidates,
          script, db, stack, outcome, pc>>

(***************************** bounds **************************************)
\* column values are 0..MaxValue
MaxValue == 1
\* the row-count draw of property_insert_select is cut to 1..MaxRowsDrawn
MaxRowsDrawn == 2
\* env.opts.max_interactions ranges over 0..MaxInteractions
MaxInteractions == 2
\* each counter of InteractionStats ranges over 0..MaxCount
MaxCount == 1
\* an arbitrary result-set stack has 1..MaxStack entries
MaxStack == 2

(************************ program constants ********************************)
\* rng.gen_range(1..=5): the largest number of inserted rows
MaxInsertRows == 5
\* rng.gen_range(0..3) in property_insert_select: exclusive bound
InsertSelectFillerBound == 3
\* rng.gen_range(0..3) in property_double_create_failure: exclusive bound
DoubleCreateFillerBound == 3
\* one f64 unit, in fixed-point steps (a multiple of 100 and of 2, so that
\* x * percent / 100.0 and x / 2.0 are exact on the modelled inputs)
Unit == 200

(****************************** data ***************************************)
Values == 0..MaxValue

TableNames == {"t", "u"}

\* model::table::Table {rows, name, columns}; columns is the column count
Table(n) == [name |-> n, columns |-> 1, rows |-> <<>>]

\* all rows a table's columns admit (Vec<Value>::arbitrary_from)
RowDomain(table) == [1..table.columns -> Values]

\* model::query::Predicate, as data: True, False, or first column = val
Predicates ==
    {[op |-> "True", val |-> 0], [op |-> "False", val |-> 0]}
        \cup {[op |-> "Eq", val |-> v] : v \in Values}

\* Predicate::test(row, table)
PredicateTest(predicate, row, table) ==
    CASE predicate.op = "True" -> TRUE
      [] predicate.op = "False" -> FALSE
      [] OTHER -> Len(row) >= 1 /\ row[1] = predicate.val

\* Predicate::arbitrary_from(rng, (table, row)): a predicate true on row
PredicateProvider(table, row) ==
    {p \in Predicates : PredicateTest(p, row, table)}

Insert(t, rows) == [kind |-> "Insert", table |-> t, values |-> rows]
Select(t, p) == [kind |-> "Select", table |-> t, predicate |-> p]
Delete(t, p) == [kind |-> "Delete", table |-> t, predicate |-> p]
Create(tbl) == [kind |-> "Create", table |-> tbl]

\* Query::arbitrary_from(rng, (table, remaining)): any query of the four
\* kinds; Insert and Select target the given table
QueryProvider(table) ==
    {Insert(table.name, <<r>>) : r \in RowDomain(table)}
        \cup {Select(table.name, p) : p \in Predicates}
        \cup {Delete(n, p) : n \in TableNames, p \in Predicates}
        \cup {Create(Table(n)) : n \in TableNames}

NoProperty == [kind |-> "None"]
NoRemaining == [read |-> 0, write |-> 0, create |-> 0]

(**************************** remaining ************************************)
\* fault: the budget gap is not clamped at zero
F64NoClamp(x) == x

\* f64::max(x, 0.0)
F64Max0(x) == IF x > 0 THEN x ELSE 0

\* f64::min
F64Min(a, b) == IF a < b THEN a ELSE b

\* (max_interactions as f64 * percent / 100.0) - (count as f64)
BudgetGap(max_interactions, percent, count) ==
    ((max_interactions * Unit * percent) \div 100) - count * Unit

remaining(e, s) ==
    [read   |-> F64Max0(BudgetGap(e.opts.max_interactions,
                                  e.opts.read_percent, s.read_count)),
     write  |-> F64Max0(BudgetGap(e.opts.max_interactions,
                                  e.opts.write_percent, s.write_count)),
     create |-> F64Max0(BudgetGap(e.opts.max_interactions,
                                  e.opts.create_percent, s.create_count))]

(************************ weighted dispatch ********************************)
\* fault: the two weights are attached to the wrong generators
PropertyWeightsSwapped(r) == <<r.create \div 2, F64Min(r.read, r.write)>>

\* the weight column of the vec! handed to frequency, in source order
PropertyWeights(r) == <<F64Min(r.read, r.write), r.create \div 2>>

\* frequency: total of the weights
FrequencyTotal(ws) == ws[1] + ws[2]

\* frequency: scan the choices, subtracting each weight passed over
RECURSIVE FrequencyScan(_, _, _)
FrequencyScan(ws, choice, i) ==
    IF i > Len(ws) THEN 0
    ELSE IF choice < ws[i] THEN i
    ELSE FrequencyScan(ws, choice - ws[i], i + 1)

\* the indexes frequency can select: one per draw in [0, total)
FrequencyChoices(ws) ==
    {FrequencyScan(ws, choice, 1) : choice \in 0..(FrequencyTotal(ws) - 1)}

(************************** filler filters *********************************)
\* fault: a Delete is pushed whatever it removes
InsertSelectKeepsAnyDelete(query, table, row) ==
    CASE query.kind = "Create" -> ~(query.table.name = table.name)
      [] OTHER -> TRUE

\* property_insert_select's match on a candidate: TRUE when it is pushed
InsertSelectKeeps(query, table, row) ==
    CASE query.kind = "Delete" ->
            ~(query.table = table.name
                /\ PredicateTest(query.predicate, row, table))
      [] query.kind = "Create" -> ~(query.table.name = table.name)
      [] OTHER -> TRUE

\* fault: every Create is dropped, whatever table it names
DoubleCreateDropsEveryCreate(query, table) == query.kind # "Create"

\* property_double_create_failure's match on a candidate
DoubleCreateKeeps(query, table) ==
    CASE query.kind = "Create" -> ~(query.table.name = table.name)
      [] OTHER -> TRUE

\* the for loop of property_insert_select over the queries it is handed
RECURSIVE InsertSelectLoop(_, _, _, _, _)
InsertSelectLoop(cands, i, table, row, queries) ==
    IF i > Len(cands) THEN queries
    ELSE InsertSelectLoop(cands, i + 1, table, row,
            IF InsertSelectKeeps(cands[i], table, row)
            THEN Append(queries, cands[i]) ELSE queries)

\* the for loop of property_double_create_failure
RECURSIVE DoubleCreateLoop(_, _, _, _)
DoubleCreateLoop(cands, i, table, queries) ==
    IF i > Len(cands) THEN queries
    ELSE DoubleCreateLoop(cands, i + 1, table,
            IF DoubleCreateKeeps(cands[i], table)
            THEN Append(queries, cands[i]) ELSE queries)

(***************************** Init ****************************************)
Percents == {0, 50, 100}

EnvTables == {<<Table("t")>>, <<Table("t"), Table("u")>>}

Options(mi, rp, wp, cp) ==
    [max_interactions |-> mi, read_percent |-> rp,
     write_percent |-> wp, create_percent |-> cp]

Fresh ==
    /\ rem = NoRemaining
    /\ weights = <<0, 0>>
    /\ prop = NoProperty
    /\ origin = "none"
    /\ attempted = 0
    /\ candidates = <<>>
    /\ script = <<>>
    /\ db = <<>>
    /\ stack = <<>>
    /\ outcome = [tag |-> "None", val |-> FALSE, err |-> <<>>]
    /\ pc = "start"

\* one workload mix in which both property kinds have positive weight
Init ==
    /\ \E tbls \in EnvTables :
          env = [tables |-> tbls,
                 opts |-> Options(MaxInteractions, 50, 50, 100)]
    /\ stats = [read_count |-> 0, write_count |-> 0, create_count |-> 0]
    /\ Fresh

(************************** the generators *********************************)
IntMin(a, b) == IF a < b THEN a ELSE b

\* draws of rng.gen_range(1..=5), cut to the model's bound
RowCountDraws == 1..IntMin(MaxInsertRows, MaxRowsDrawn)

\* fault: the range of the row count runs one too far
InsertRowDrawsOneMore == 1..(MaxInsertRows + 1)

\* every draw of rng.gen_range(1..=5)
InsertRowDraws == 1..MaxInsertRows

\* fault: the range of the filler count includes its upper bound
InsertSelectFillerDrawsInclusive == 0..InsertSelectFillerBound

\* draws of rng.gen_range(0..3)
InsertSelectFillerDraws == 0..(InsertSelectFillerBound - 1)
DoubleCreateFillerDraws == 0..(DoubleCreateFillerBound - 1)

\* property_insert_select(rng, env, remaining); the rng draws and the
\* providers' answers are the bound variables
property_insert_select(rowCounts, fillerCounts) ==
    \E ti \in 1..Len(env.tables) :
      LET table == env.tables[ti] IN
      \E n \in rowCounts :
      \E rows \in [1..n -> RowDomain(table)] :
      \E row_index \in 0..(Len(rows) - 1) :
        LET row == rows[row_index + 1]
            insert_query == [table |-> table.name, values |-> rows]
        IN
        \E count \in fillerCounts :
        \E cands \in [1..count -> QueryProvider(table)] :
        \E predicate \in PredicateProvider(table, row) :
          /\ attempted' = count
          /\ candidates' = cands
          /\ prop' = [kind |-> "InsertSelect",
                      insert |-> insert_query,
                      row_index |-> row_index,
                      queries |-> InsertSelectLoop(cands, 1, table, row, <<>>),
                      select |-> [table |-> table.name,
                                  predicate |-> predicate]]

\* fault: the created table is a new one, named like no table of env
property_double_create_fresh(fillerCounts) ==
    \E n \in {m \in TableNames : ~\E i \in 1..Len(env.tables) :
                                      env.tables[i].name = m} :
      LET table == Table(n)
          create_query == [table |-> table]
      IN
      \E count \in fillerCounts :
      \E cands \in [1..count -> QueryProvider(table)] :
        /\ attempted' = count
        /\ candidates' = cands
        /\ prop' = [kind |-> "DoubleCreateFailure",
                    create |-> create_query,
                    queries |-> DoubleCreateLoop(cands, 1, table, <<>>)]

\* property_double_create_failure(rng, env, remaining)
property_double_create_failure(fillerCounts) ==
    \E ti \in 1..Len(env.tables) :
      LET table == env.tables[ti]
          create_query == [table |-> table]
      IN
      \E count \in fillerCounts :
      \E cands \in [1..count -> QueryProvider(table)] :
        /\ attempted' = count
        /\ candidates' = cands
        /\ prop' = [kind |-> "DoubleCreateFailure",
                    create |-> create_query,
                    queries |-> DoubleCreateLoop(cands, 1, table, <<>>)]

\* Property::arbitrary_from(rng, (env, stats)).  frequency draws from
\* [0, total): with total = 0 the range is empty and the draw panics.
arbitrary_from(rowCounts, isFillers, dcFillers) ==
    /\ pc = "start"
    /\ LET remaining_ == remaining(env, stats)
           ws == PropertyWeights(remaining_)
       IN
       /\ rem' = remaining_
       /\ weights' = ws
       /\ IF FrequencyTotal(ws) = 0
          THEN /\ pc' = "panic"
               /\ UNCHANGED <<prop, origin, attempted, candidates>>
          ELSE /\ \E k \in FrequencyChoices(ws) :
                    \/ /\ k = 1
                       /\ property_insert_select(rowCounts, isFillers)
                    \/ /\ k = 2
                       /\ property_double_create_failure(dcFillers)
               /\ origin' = "generated"
               /\ pc' = "generated"
    /\ UNCHANGED <<env, stats, script, db, stack, outcome>>

\* Property values a corpus can hold: #[derive(Deserialize)] accepts any
\* field values, also ones no generator produces
StoredInsertSelects(n) ==
    {[kind |-> "InsertSelect",
      insert |-> [table |-> n, values |-> rows],
      row_index |-> ri,
      queries |-> qs,
      select |-> [table |-> n, predicate |-> p]] :
        rows \in UNION {[1..k -> RowDomain(Table(n))] : k \in 0..1},
        ri \in 0..1,
        qs \in UNION {[1..k -> QueryProvider(Table(n))] : k \in 0..1},
        p \in Predicates}

StoredDoubleCreates(n) ==
    {[kind |-> "DoubleCreateFailure",
      create |-> [table |-> Table(n)],
      queries |-> qs] :
        qs \in UNION {[1..k -> QueryProvider(Table(n))] : k \in 0..1}}

StoredProperties ==
    UNION {StoredInsertSelects(n) \cup StoredDoubleCreates(n) :
              n \in TableNames}

\* a Property read back from its serialized form
Deserialize ==
    /\ pc = "start"
    /\ \E p \in StoredProperties : prop' = p
    /\ origin' = "loaded"
    /\ pc' = "generated"
    /\ UNCHANGED <<env, stats, rem, weights, attempted, candidates,
                   script, db, stack, outcome>>

(**************************** the compiler *********************************)
QueryInteraction(q) == [kind |-> "Query", query |-> q]

\* the closure of an Assumption or Assertion: what it checks and the data
\* it captured by move
Closure(check, table_name, row) ==
    [check |-> check, table_name |-> table_name, row |-> row]

\* assert!(!insert.values.is_empty()) and insert.values[*row_index]
InteractionsPanics(p) ==
    /\ p.kind = "InsertSelect"
    /\ \/ Len(p.insert.values) = 0
       \/ p.row_index >= Len(p.insert.values)

\* fault: the Select is pushed before the fillers
InsertSelectSelectFirst(p) ==
    LET row == p.insert.values[p.row_index + 1]
        assumption ==
            [kind |-> "Assumption",
             message |-> <<"table", p.insert.table, "exists">>,
             func |-> Closure("TableExists", p.insert.table, <<>>)]
        assertion ==
            [kind |-> "Assertion",
             message |-> <<"row", row, "not found in table", p.insert.table>>,
             func |-> Closure("RowFound", p.insert.table, row)]
    IN  <<assumption,
          QueryInteraction(Insert(p.insert.table, p.insert.values)),
          QueryInteraction(Select(p.select.table, p.select.predicate))>>
        \o [k \in 1..Len(p.queries) |-> QueryInteraction(p.queries[k])]
        \o <<assertion>>

\* fault: the assumption of InsertSelect is negated
InsertSelectAssumesAbsent(p) ==
    LET row == p.insert.values[p.row_index + 1]
        assumption ==
            [kind |-> "Assumption",
             message |-> <<"table", p.insert.table, "exists">>,
             func |-> Closure("TableAbsent", p.insert.table, <<>>)]
        assertion ==
            [kind |-> "Assertion",
             message |-> <<"row", row, "not found in table", p.insert.table>>,
             func |-> Closure("RowFound", p.insert.table, row)]
    IN  <<assumption,
          QueryInteraction(Insert(p.insert.table, p.insert.values))>>
        \o [k \in 1..Len(p.queries) |-> QueryInteraction(p.queries[k])]
        \o <<QueryInteraction(Select(p.select.table, p.select.predicate)),
             assertion>>

\* Property::interactions, InsertSelect arm
InsertSelectInteractions(p) ==
    LET row == p.insert.values[p.row_index + 1]
        assumption ==
            [kind |-> "Assumption",
             message |-> <<"table", p.insert.table, "exists">>,
             func |-> Closure("TableExists", p.insert.table, <<>>)]
        assertion ==
            [kind |-> "Assertion",
             message |-> <<"row", row, "not found in table", p.insert.table>>,
             func |-> Closure("RowFound", p.insert.table, row)]
        i1 == Append(<<>>, assumption)
        i2 == Append(i1, QueryInteraction(
                  Insert(p.insert.table, p.insert.values)))
        i3 == i2 \o [k \in 1..Len(p.queries) |->
                        QueryInteraction(p.queries[k])]
        i4 == Append(i3, QueryInteraction(
                  Select(p.select.table, p.select.predicate)))
    IN  Append(i4, assertion)

\* fault: the second Create is pushed before the fillers
DoubleCreateSecondEarly(p) ==
    LET table_name == p.create.table.name
        assumption ==
            [kind |-> "Assumption",
             message |-> <<"Double-Create-Failure should not be called on an existing table">>,
             func |-> Closure("TableAbsent", table_name, <<>>)]
        assertion ==
            [kind |-> "Assertion",
             message |-> <<"creating two tables with the name should result in a failure for the second query">>,
             func |-> Closure("CreateFails", table_name, <<>>)]
    IN  <<assumption,
          QueryInteraction(Create(p.create.table)),
          QueryInteraction(Create(p.create.table))>>
        \o [k \in 1..Len(p.queries) |-> QueryInteraction(p.queries[k])]
        \o <<assertion>>

\* fault: the second Create is left out
DoubleCreateSecondMissing(p) ==
    LET table_name == p.create.table.name
        assumption ==
            [kind |-> "Assumption",
             message |-> <<"Double-Create-Failure should not be called on an existing table">>,
             func |-> Closure("TableAbsent", table_name, <<>>)]
        assertion ==
            [kind |-> "Assertion",
             message |-> <<"creating two tables with the name should result in a failure for the second query">>,
             func |-> Closure("CreateFails", table_name, <<>>)]
    IN  <<assumption, QueryInteraction(Create(p.create.table))>>
        \o [k \in 1..Len(p.queries) |-> QueryInteraction(p.queries[k])]
        \o <<assertion>>

\* Property::interactions, DoubleCreateFailure arm
DoubleCreateInteractions(p) ==
    LET table_name == p.create.table.name
        assumption ==
            [kind |-> "Assumption",
             message |-> <<"Double-Create-Failure should not be called on an existing table">>,
             func |-> Closure("TableAbsent", table_name, <<>>)]
        cq1 == QueryInteraction(Create(p.create.table))
        cq2 == QueryInteraction(Create(p.create.table))
        assertion ==
            [kind |-> "Assertion",
             message |-> <<"creating two tables with the name should result in a failure for the second query">>,
             func |-> Closure("CreateFails", table_name, <<>>)]
        i1 == Append(<<>>, assumption)
        i2 == Append(i1, cq1)
        i3 == i2 \o [k \in 1..Len(p.queries) |->
                        QueryInteraction(p.queries[k])]
        i4 == Append(i3, cq2)
    IN  Append(i4, assertion)

interactions(p) ==
    IF p.kind = "InsertSelect"
    THEN InsertSelectInteractions(p)
    ELSE DoubleCreateInteractions(p)

\* fault: an empty insert yields an empty script instead of aborting
CompileReturnsEmpty ==
    /\ pc = "generated"
    /\ IF InteractionsPanics(prop)
       THEN IF Len(prop.insert.values) = 0
            THEN /\ pc' = "compiled"
                 /\ script' = <<>>
            ELSE /\ pc' = "panic"
                 /\ script' = script
       ELSE /\ script' = interactions(prop)
            /\ pc' = "compiled"
    /\ UNCHANGED <<env, stats, rem, weights, prop, origin, attempted,
                   candidates, db, stack, outcome>>

\* a caller compiling the property it holds
Compile ==
    /\ pc = "generated"
    /\ IF InteractionsPanics(prop)
       THEN /\ pc' = "panic"
            /\ script' = script
       ELSE /\ script' = interactions(prop)
            /\ pc' = "compiled"
    /\ UNCHANGED <<env, stats, rem, weights, prop, origin, attempted,
                   candidates, db, stack, outcome>>

(************************ closures and results *****************************)
\* plan::ResultSet = Result<Vec<Vec<Value>>, LimboError>; an error is the
\* word sequence of its to_string()
OkRows(rows) == [ok |-> TRUE, rows |-> rows, err |-> <<>>]
ErrResult(msg) == [ok |-> FALSE, rows |-> <<>>, err |-> msg]

\* what an Assertion's func returns: Ok(bool) or Err(LimboError); Panic is
\* stack.last().unwrap() on an empty stack
OkBool(b) == [tag |-> "Ok", val |-> b, err |-> <<>>]
ErrOutcome(msg) == [tag |-> "Err", val |-> FALSE, err |-> msg]
PanicOutcome == [tag |-> "Panic", val |-> FALSE, err |-> <<>>]
NoOutcome == [tag |-> "None", val |-> FALSE, err |-> <<>>]
Discarded == [tag |-> "Discarded", val |-> FALSE, err |-> <<>>]

\* str::contains on word sequences
Contains(text, pattern) ==
    \E i \in 1..(Len(text) - Len(pattern) + 1) :
        SubSeq(text, i, i + Len(pattern) - 1) = pattern

\* format!("Table {table_name} already exists")
AlreadyExistsText(table_name) == <<"Table", table_name, "already", "exists">>

\* env.tables.iter().any(|t| t.name == table_name)
AnyTableNamed(tables, table_name) ==
    \E i \in 1..Len(tables) : tables[i].name = table_name

\* fault: the assertion reads the first entry of the stack
RowFoundInFirst(row, stk) ==
    IF Len(stk) = 0 THEN PanicOutcome
    ELSE LET rows == stk[1] IN
         IF rows.ok
         THEN OkBool(\E i \in 1..Len(rows.rows) : rows.rows[i] = row)
         ELSE ErrOutcome(<<"Internal error:">> \o rows.err)

\* the InsertSelect assertion closure
RowFoundFunc(row, stk) ==
    IF Len(stk) = 0 THEN PanicOutcome
    ELSE LET rows == stk[Len(stk)] IN
         IF rows.ok
         THEN OkBool(\E i \in 1..Len(rows.rows) : rows.rows[i] = row)
         ELSE ErrOutcome(<<"Internal error:">> \o rows.err)

\* fault: any error passes, whatever its text
CreateFailsOnAnyError(table_name, stk) ==
    IF Len(stk) = 0 THEN PanicOutcome
    ELSE OkBool(~stk[Len(stk)].ok)

\* the DoubleCreateFailure assertion closure
CreateFailsFunc(table_name, stk) ==
    IF Len(stk) = 0 THEN PanicOutcome
    ELSE LET last == stk[Len(stk)] IN
         IF last.ok
         THEN OkBool(FALSE)
         ELSE OkBool(Contains(last.err, AlreadyExistsText(table_name)))

\* calling (assertion.func)(stack, env)
CallFunc(func, stk, tables) ==
    CASE func.check = "TableExists" ->
            OkBool(AnyTableNamed(tables, func.table_name))
      [] func.check = "TableAbsent" ->
            OkBool(~AnyTableNamed(tables, func.table_name))
      [] func.check = "RowFound" -> RowFoundFunc(func.row, stk)
      [] OTHER -> CreateFailsFunc(func.table_name, stk)

(********************* driver and reference database ***********************)
TableIndex(tables, name) ==
    CHOOSE i \in 1..Len(tables) : tables[i].name = name

MatchingRows(rows, predicate, table) ==
    SelectSeq(rows, LAMBDA r : PredicateTest(predicate, r, table))

RemainingRows(rows, predicate, table) ==
    SelectSeq(rows, LAMBDA r : ~PredicateTest(predicate, r, table))

NoSuchTable(name) == ErrResult(<<"Parse error:", "no such table:", name>>)

\* one query against the reference tables: the tables after it and its
\* ResultSet; a failing query leaves the tables as they were
ExecuteQuery(tables, q) ==
    CASE q.kind = "Create" ->
            IF AnyTableNamed(tables, q.table.name)
            THEN [tables |-> tables,
                  result |-> ErrResult(<<"Parse error:">>
                                \o AlreadyExistsText(q.table.name))]
            ELSE [tables |-> Append(tables, q.table),
                  result |-> OkRows(<<>>)]
      [] q.kind = "Insert" ->
            IF ~AnyTableNamed(tables, q.table)
            THEN [tables |-> tables, result |-> NoSuchTable(q.table)]
            ELSE LET i == TableIndex(tables, q.table) IN
                 [tables |-> [tables EXCEPT ![i].rows = @ \o q.values],
                  result |-> OkRows(<<>>)]
      [] q.kind = "Delete" ->
            IF ~AnyTableNamed(tables, q.table)
            THEN [tables |-> tables, result |-> NoSuchTable(q.table)]
            ELSE LET i == TableIndex(tables, q.table) IN
                 [tables |-> [tables EXCEPT ![i].rows =
                                RemainingRows(@, q.predicate, tables[i])],
                  result |-> OkRows(<<>>)]
      [] OTHER ->
            IF ~AnyTableNamed(tables, q.table)
            THEN [tables |-> tables, result |-> NoSuchTable(q.table)]
            ELSE LET i == TableIndex(tables, q.table) IN
                 [tables |-> tables,
                  result |-> OkRows(MatchingRows(tables[i].rows,
                                                 q.predicate, tables[i]))]

\* InteractionStats after one executed query, by category
CountQuery(s, q) ==
    CASE q.kind = "Select" -> [s EXCEPT !.read_count = @ + 1]
      [] q.kind = "Create" -> [s EXCEPT !.create_count = @ + 1]
      [] OTHER -> [s EXCEPT !.write_count = @ + 1]

\* the driver's loop over a script from interaction i on: queries run in
\* order and push their outcome; a false Assumption discards the run; the
\* Assertion is evaluated against the stack as it then stands
RECURSIVE DriverLoop(_, _, _, _, _)
DriverLoop(scr, i, tables, stk, s) ==
    IF i > Len(scr)
    THEN [tables |-> tables, stack |-> stk, stats |-> s,
          outcome |-> NoOutcome]
    ELSE
      LET it == scr[i] IN
      CASE it.kind = "Query" ->
              LET e == ExecuteQuery(tables, it.query) IN
              DriverLoop(scr, i + 1, e.tables, Append(stk, e.result),
                         CountQuery(s, it.query))
        [] it.kind = "Assumption" ->
              IF CallFunc(it.func, stk, tables) = OkBool(TRUE)
              THEN DriverLoop(scr, i + 1, tables, stk, s)
              ELSE [tables |-> tables, stack |-> stk, stats |-> s,
                    outcome |-> Discarded]
        [] OTHER ->
              [tables |-> tables, stack |-> stk, stats |-> s,
               outcome |-> CallFunc(it.func, stk, tables)]

Stocked(n) == [Table(n) EXCEPT !.rows = <<[c \in 1..1 |-> 0]>>]

\* the tables the environment can hold when a script is run
ExecEnvs ==
    {<<>>, <<Table("t")>>, <<Table("u")>>, <<Table("t"), Table("u")>>,
     <<Stocked("t")>>}

\* the driver runs the compiled script
Run ==
    /\ pc = "compiled"
    /\ \E tables \in ExecEnvs :
          LET r == DriverLoop(script, 1, tables, <<>>, stats) IN
          /\ db' = r.tables
          /\ stack' = r.stack
          /\ stats' = r.stats
          /\ outcome' = r.outcome
    /\ pc' = "done"
    /\ UNCHANGED <<env, rem, weights, prop, origin, attempted, candidates,
                   script>>

(********************** arbitrary result stacks ****************************)
\* error texts an engine can answer with, the expected one among them at
\* the start, in the middle, cut short and with another name
ErrorTexts ==
    UNION {{AlreadyExistsText(n),
            <<"Parse error:">> \o AlreadyExistsText(n),
            <<"Table", n, "already">>,
            <<"Table", n, "does", "not", "exist">>} : n \in TableNames}

\* every ResultSet of up to two rows, and every error above
ResultSets ==
    {OkRows(rows) : rows \in UNION {[1..k -> RowDomain(Table("t"))] :
                                        k \in 0..2}}
        \cup {ErrResult(m) : m \in ErrorTexts}

ArbitraryStacks == UNION {[1..k -> ResultSets] : k \in 1..MaxStack}

\* the terminal Assertion of the compiled script, called on a stack and an
\* environment of the caller's choosing
Evaluate ==
    /\ pc = "compiled"
    /\ \E stk \in ArbitraryStacks :
       \E tables \in {<<>>, env.tables} :
          /\ stack' = stk
          /\ db' = tables
          /\ outcome' = CallFunc(script[Len(script)].func, stk, tables)
    /\ pc' = "evaluated"
    /\ UNCHANGED <<env, stats, rem, weights, prop, origin, attempted,
                   candidates, script>>

Next ==
    \/ arbitrary_from(RowCountDraws, InsertSelectFillerDraws,
                      DoubleCreateFillerDraws)
    \/ Deserialize
    \/ Compile
    \/ Run

Spec == Init /\ [][Next]_vars

(********************* budgets and dispatch alone **************************)
ScenarioA == Options(10, 50, 50, 0)

\* every workload mix and every counter value within the bounds, and the
\* documented scenario
InitBudget ==
    /\ \E tbls \in EnvTables :
       \E o \in {Options(mi, rp, wp, cp) :
                    mi \in 0..MaxInteractions, rp \in Percents,
                    wp \in Percents, cp \in Percents} \cup {ScenarioA} :
          env = [tables |-> tbls, opts |-> o]
    /\ \E rc \in 0..MaxCount, wc \in 0..MaxCount, cc \in 0..MaxCount :
          stats = [read_count |-> rc, write_count |-> wc,
                   create_count |-> cc]
    /\ Fresh

\* generation with one drawn row and no filler
NextBudget == arbitrary_from({1}, {0}, {0})

SpecBudget == InitBudget /\ [][NextBudget]_vars

(************************ the generators alone *****************************)
\* generation with every row count the source draws and no filler, and
\* the compilation of what was generated
NextGen ==
    \/ arbitrary_from(InsertRowDraws, {0}, {0})
    \/ Compile

SpecGen == Init /\ [][NextGen]_vars

(************************ the assertions alone *****************************)
NextOracle ==
    \/ arbitrary_from({1}, {0}, {0})
    \/ Compile
    \/ Evaluate

SpecOracle == Init /\ [][NextOracle]_vars

(******************************* claims ************************************)
Compiled == pc \in {"compiled", "done", "evaluated"}

KindCount(scr, kind) == Cardinality({i \in 1..Len(scr) : scr[i].kind = kind})

SelectedRow == prop.insert.values[prop.row_index + 1]

GeneratedInsertSelect == origin = "generated" /\ prop.kind = "InsertSelect"

GeneratedDoubleCreate ==
    origin = "generated" /\ prop.kind = "DoubleCreateFailure"

\* C1: a compiled InsertSelect with a non-empty insert and a valid
\* row_index is [Assumption, Query(Insert), Query(f_1), ..., Query(f_n),
\* Query(Select), Assertion] with the fillers in their stored order: one
\* Assumption, first; one Assertion, last; length n + 4.  Compiling it
\* fails only on an empty insert or a row_index out of range.
C1_InsertSelectScript ==
    /\ (Compiled /\ prop.kind = "InsertSelect") =>
          LET n == Len(prop.queries) IN
          /\ Len(script) = n + 4
          /\ script[1].kind = "Assumption"
          /\ KindCount(script, "Assumption") = 1
          /\ script[2] = QueryInteraction(
                            Insert(prop.insert.table, prop.insert.values))
          /\ \A k \in 1..n : script[2 + k] = QueryInteraction(prop.queries[k])
          /\ script[n + 3] = QueryInteraction(
                                Select(prop.select.table,
                                       prop.select.predicate))
          /\ script[n + 4].kind = "Assertion"
          /\ KindCount(script, "Assertion") = 1
    /\ (pc = "panic" /\ prop.kind = "InsertSelect") =>
          \/ Len(prop.insert.values) = 0
          \/ prop.row_index >= Len(prop.insert.values)

\* a compiled InsertSelect with two different fillers
C1_Witness ==
    /\ pc = "compiled"
    /\ prop.kind = "InsertSelect"
    /\ Len(prop.queries) = 2
    /\ prop.queries[1].kind = "Delete"
    /\ prop.queries[2].kind = "Insert"
    /\ Len(script) = 6

\* C2: a compiled DoubleCreateFailure is [Assumption, Query(Create c),
\* Query(f_1), ..., Query(f_n), Query(Create c), Assertion]: both Creates
\* carry the stored create specification, the fillers keep their stored
\* order, and the length is n + 4.
C2_DoubleCreateScript ==
    (Compiled /\ prop.kind = "DoubleCreateFailure") =>
        LET n == Len(prop.queries) IN
        /\ Len(script) = n + 4
        /\ script[1].kind = "Assumption"
        /\ KindCount(script, "Assumption") = 1
        /\ script[2].kind = "Query"
        /\ script[2].query.kind = "Create"
        /\ script[2].query.table = prop.create.table
        /\ \A k \in 1..n : script[2 + k] = QueryInteraction(prop.queries[k])
        /\ script[n + 3] = script[2]
        /\ script[n + 4].kind = "Assertion"
        /\ KindCount(script, "Assertion") = 1

\* a compiled DoubleCreateFailure with two different fillers
C2_Witness ==
    /\ pc = "compiled"
    /\ prop.kind = "DoubleCreateFailure"
    /\ Len(prop.queries) = 2
    /\ prop.queries[1].kind = "Insert"
    /\ prop.queries[2].kind = "Select"
    /\ Len(script) = 6

\* C3: no filler of a generated InsertSelect is a Delete on the chosen
\* table whose predicate is true on insert.values[row_index], and none is
\* a Create of a table with the chosen table's name.
C3_InsertSelectFillersSound ==
    GeneratedInsertSelect =>
        \A k \in 1..Len(prop.queries) :
            LET q == prop.queries[k] IN
            /\ ~(/\ q.kind = "Delete"
                 /\ q.table = prop.insert.table
                 /\ PredicateTest(q.predicate, SelectedRow,
                                  Table(prop.insert.table)))
            /\ ~(q.kind = "Create" /\ q.table.name = prop.insert.table)

\* the provider offered a Delete that removes the selected row and a
\* Create of the chosen table, and both were dropped
C3_Witness ==
    /\ GeneratedInsertSelect
    /\ attempted = 2
    /\ candidates[1].kind = "Delete"
    /\ candidates[1].table = prop.insert.table
    /\ PredicateTest(candidates[1].predicate, SelectedRow,
                     Table(prop.insert.table))
    /\ candidates[2].kind = "Create"
    /\ candidates[2].table.name = prop.insert.table
    /\ prop.queries = <<>>

\* C4: the fillers of a generated DoubleCreateFailure are its candidates,
\* in order, without the Creates that name the created table: no such
\* Create is kept and every other candidate is.
C4_DoubleCreateFillers ==
    GeneratedDoubleCreate =>
        prop.queries =
            SelectSeq(candidates,
                      LAMBDA q : ~(/\ q.kind = "Create"
                                   /\ q.table.name = prop.create.table.name))

\* a Create of the created table was dropped, a Create of another kept
C4_Witness ==
    /\ GeneratedDoubleCreate
    /\ attempted = 2
    /\ candidates[1].kind = "Create"
    /\ candidates[1].table.name = prop.create.table.name
    /\ candidates[2].kind = "Create"
    /\ candidates[2].table.name # prop.create.table.name
    /\ prop.queries = <<candidates[2]>>

\* C5: a generated InsertSelect script, run in order against the reference
\* database in an environment where its assumption holds, with a select
\* predicate true on the selected row, ends with its assertion passing.
C5_InsertSelectPasses ==
    (/\ pc = "done"
     /\ GeneratedInsertSelect
     /\ outcome # Discarded
     /\ PredicateTest(prop.select.predicate, SelectedRow,
                      Table(prop.insert.table)))
        => outcome = OkBool(TRUE)

\* such a run in which a filler Delete on the chosen table removed the
\* other inserted row, and the Select of every row found the selected one
C5_Witness ==
    /\ pc = "done"
    /\ GeneratedInsertSelect
    /\ outcome = OkBool(TRUE)
    /\ Len(prop.insert.values) = 2
    /\ prop.insert.values[1] # prop.insert.values[2]
    /\ \E k \in 1..Len(prop.queries) :
          /\ prop.queries[k].kind = "Delete"
          /\ prop.queries[k].table = prop.insert.table
          /\ prop.queries[k].predicate.op = "Eq"
    /\ prop.select.predicate.op = "True"
    /\ stack[Len(stack)].rows = <<SelectedRow>>

\* C6: a generated DoubleCreateFailure script, run in order against the
\* reference database in an environment where its assumption holds, ends
\* with the second Create's error last on the stack and its assertion
\* passing.
C6_DoubleCreatePasses ==
    (/\ pc = "done"
     /\ GeneratedDoubleCreate
     /\ outcome # Discarded)
        => /\ Len(stack) = Len(prop.queries) + 2
           /\ ~stack[Len(stack)].ok
           /\ stack[Len(stack)].err =
                <<"Parse error:", "Table", prop.create.table.name,
                  "already", "exists">>
           /\ outcome = OkBool(TRUE)

\* such a run with two fillers, the last of them succeeding
C6_Witness ==
    /\ pc = "done"
    /\ GeneratedDoubleCreate
    /\ Len(prop.queries) = 2
    /\ Len(stack) = 4
    /\ stack[1].ok
    /\ stack[3].ok
    /\ outcome = OkBool(TRUE)

LastResult == stack[Len(stack)]

\* C7: the InsertSelect assertion on a non-empty stack is decided by the
\* last entry alone: Ok(true) iff it is a success holding a row equal,
\* component by component, to insert.values[row_index]; Ok(false) when it
\* is a success without one; an error, never Ok(false), iff it is an error.
C7_RowFoundByLastEntry ==
    (pc = "evaluated" /\ prop.kind = "InsertSelect") =>
        LET found == \E i \in 1..Len(LastResult.rows) :
                        /\ Len(LastResult.rows[i]) = Len(SelectedRow)
                        /\ \A c \in 1..Len(SelectedRow) :
                              LastResult.rows[i][c] = SelectedRow[c]
        IN
        /\ (outcome.tag = "Ok" /\ outcome.val) <=> (LastResult.ok /\ found)
        /\ (LastResult.ok /\ ~found) =>
              (outcome.tag = "Ok" /\ ~outcome.val)
        /\ (outcome.tag = "Err") <=> ~LastResult.ok

\* the row is in the last entry, behind another row, and an error lies
\* under it
C7_Witness ==
    /\ pc = "evaluated"
    /\ prop.kind = "InsertSelect"
    /\ Len(stack) = 2
    /\ ~stack[1].ok
    /\ stack[2].ok
    /\ Len(stack[2].rows) = 2
    /\ stack[2].rows[1] # SelectedRow
    /\ stack[2].rows[2] = SelectedRow
    /\ db = <<>>
    /\ outcome = OkBool(TRUE)

\* C8: the DoubleCreateFailure assertion on a non-empty stack returns
\* Ok(true) iff the last entry is an error whose text contains
\* "Table <name> already exists" for the created table's name, and
\* Ok(false), never an error, otherwise.
C8_CreateFailsByErrorText ==
    (pc = "evaluated" /\ prop.kind = "DoubleCreateFailure") =>
        LET name == prop.create.table.name
            text == LastResult.err
            hit ==
                \E i \in 1..Len(text) :
                    /\ i + 3 <= Len(text)
                    /\ text[i] = "Table"
                    /\ text[i + 1] = name
                    /\ text[i + 2] = "already"
                    /\ text[i + 3] = "exists"
        IN
        /\ outcome.tag = "Ok"
        /\ outcome.val <=> (~LastResult.ok /\ hit)

\* the last entry is an error about another table: a plain failure
C8_Witness ==
    /\ pc = "evaluated"
    /\ prop.kind = "DoubleCreateFailure"
    /\ Len(stack) = 2
    /\ stack[1] = ErrResult(<<"Parse error:", "Table",
                              prop.create.table.name, "already", "exists">>)
    /\ ~stack[2].ok
    /\ stack[2].err[1] = "Table"
    /\ stack[2].err[2] # prop.create.table.name
    /\ Len(stack[2].err) = 4
    /\ stack[2].err[4] = "exists"
    /\ outcome = OkBool(FALSE)

Generating == pc # "start"

\* max_interactions * percent / 100, in steps of 1/Unit
Target(percent) == (env.opts.max_interactions * percent * Unit) \div 100

CategoryRemaining(left, percent, count) ==
    /\ left >= 0
    /\ (count * Unit >= Target(percent)) => left = 0
    /\ (count * Unit < Target(percent)) =>
          left = Target(percent) - count * Unit

\* C9: remaining is, for read, write and create alone, max(0,
\* max_interactions * percent / 100 - observed): never negative, 0 once the
\* observed count reaches the target, the difference before; 10
\* interactions at 50/50/0 percent with zero counters leave 5, 5 and 0.
C9_RemainingClamped ==
    Generating =>
        /\ CategoryRemaining(rem.read, env.opts.read_percent,
                             stats.read_count)
        /\ CategoryRemaining(rem.write, env.opts.write_percent,
                             stats.write_count)
        /\ CategoryRemaining(rem.create, env.opts.create_percent,
                             stats.create_count)
        /\ (/\ env.opts = ScenarioA
            /\ stats = [read_count |-> 0, write_count |-> 0,
                        create_count |-> 0])
              => rem = [read |-> 5 * Unit, write |-> 5 * Unit, create |-> 0]

\* the read counter has passed a target of half an interaction, the write
\* budget is still open
C9_Witness ==
    /\ Generating
    /\ env.opts.max_interactions = 1
    /\ env.opts.read_percent = 50
    /\ stats.read_count = 1
    /\ rem.read = 0
    /\ env.opts.write_percent = 100
    /\ stats.write_count = 0
    /\ rem.write = Unit

\* C10: InsertSelect weighs min(remaining.read, remaining.write) and
\* DoubleCreateFailure remaining.create / 2; with no create budget and
\* read and write budget left every draw generates an InsertSelect, and
\* with no read or no write budget and create budget left every draw
\* generates a DoubleCreateFailure.
C10_ZeroWeightNeverDrawn ==
    Generating =>
        /\ weights[1] <= rem.read
        /\ weights[1] <= rem.write
        /\ weights[1] \in {rem.read, rem.write}
        /\ 2 * weights[2] = rem.create
        /\ (rem.create = 0 /\ rem.read > 0 /\ rem.write > 0) =>
              (pc = "generated" /\ prop.kind = "InsertSelect")
        /\ ((rem.read = 0 \/ rem.write = 0) /\ rem.create > 0) =>
              (pc = "generated" /\ prop.kind = "DoubleCreateFailure")

\* the documented scenario: weights 5 and 0, an InsertSelect generated
C10_Witness ==
    /\ env.opts = ScenarioA
    /\ weights = <<5 * Unit, 0>>
    /\ pc = "generated"
    /\ prop.kind = "InsertSelect"

\* C11: a generated InsertSelect has 1 to 5 insert rows and a row_index
\* with 0 <= row_index < len(insert.values); compiling it trips neither
\* the non-empty check nor the index.
C11_RowIndexInRange ==
    GeneratedInsertSelect =>
        /\ Len(prop.insert.values) >= 1
        /\ Len(prop.insert.values) <= 5
        /\ prop.row_index >= 0
        /\ prop.row_index < Len(prop.insert.values)
        /\ pc # "panic"

\* five rows were generated, the last one selected, and the property
\* compiled
C11_Witness ==
    /\ GeneratedInsertSelect
    /\ Len(prop.insert.values) = 5
    /\ prop.row_index = 4
    /\ pc = "compiled"
    /\ script[Len(script)].func.row = prop.insert.values[5]

\* C13: compiling an InsertSelect whose insert has no rows aborts at
\* once: no interaction sequence comes back, so none is ever run and no
\* assertion of it is ever evaluated.
C13_EmptyInsertAborts ==
    (prop.kind = "InsertSelect" /\ Len(prop.insert.values) = 0) =>
        /\ pc \in {"generated", "panic"}
        /\ script = <<>>
        /\ stack = <<>>
        /\ outcome = NoOutcome

\* a stored InsertSelect without rows was compiled, and that aborted
C13_Witness ==
    /\ pc = "panic"
    /\ origin = "loaded"
    /\ prop.kind = "InsertSelect"
    /\ Len(prop.insert.values) = 0
    /\ script = <<>>

\* C14: in a generated InsertSelect script run in order against the
\* reference database there are no errors in the middle interactions:
\* every filler between the Insert and the Select succeeds.
C14_NoFillerErrors ==
    (/\ pc = "done"
     /\ GeneratedInsertSelect
     /\ outcome # Discarded)
        => \A k \in 1..Len(prop.queries) : stack[1 + k].ok

\* what property_insert_select must keep of a candidate
SoundForInsertSelect(q) ==
    /\ ~(/\ q.kind = "Delete"
         /\ q.table = prop.insert.table
         /\ PredicateTest(q.predicate, SelectedRow, Table(prop.insert.table)))
    /\ ~(q.kind = "Create" /\ q.table.name = prop.insert.table)

\* what property_double_create_failure must keep of a candidate
SoundForDoubleCreate(q) ==
    ~(q.kind = "Create" /\ q.table.name = prop.create.table.name)

\* C15: a generator attempts N fillers with N in {0, 1, 2}, asks the
\* provider exactly N times and replaces no dropped candidate: the fillers
\* are the candidates that pass the filter, in generation order, at most N
\* of them, and a compiled generated script has 4 to 6 interactions.
C15_SkipNotReplace ==
    (origin = "generated") =>
        /\ attempted \in {0, 1, 2}
        /\ Len(candidates) = attempted
        /\ prop.queries =
              IF prop.kind = "InsertSelect"
              THEN SelectSeq(candidates, SoundForInsertSelect)
              ELSE SelectSeq(candidates, SoundForDoubleCreate)
        /\ Len(prop.queries) <= attempted
        /\ Compiled => (Len(script) >= 4 /\ Len(script) <= 6)

\* two candidates were attempted, the first dropped and not replaced
C15_Witness ==
    /\ GeneratedInsertSelect
    /\ attempted = 2
    /\ ~SoundForInsertSelect(candidates[1])
    /\ prop.queries = <<candidates[2]>>
    /\ pc = "compiled"
    /\ Len(script) = 5

\* C16: for every environment with a table and every stats value,
\* Property::arbitrary_from produces one Property, also when every
\* remaining budget is 0, both weights are 0 and [0, sum of weights) is
\* empty.
C16_AlwaysOneProperty ==
    Generating =>
        /\ pc = "generated"
        /\ prop.kind \in {"InsertSelect", "DoubleCreateFailure"}

\* result stacks an assumption may be handed: it must not read them
SomeStacks ==
    {<<>>, <<OkRows(<<>>)>>, <<ErrResult(AlreadyExistsText("t"))>>}

\* C17: a generated DoubleCreateFailure creates a table copied from the
\* table list of the environment it was generated from, so its compiled
\* assumption "table does not already exist" is false in that unchanged
\* environment.
C17_DoubleCreateAssumptionFalse ==
    GeneratedDoubleCreate =>
        /\ \E i \in 1..Len(env.tables) : env.tables[i] = prop.create.table
        /\ Compiled =>
              /\ script[1].kind = "Assumption"
              /\ \A stk \in SomeStacks :
                    CallFunc(script[1].func, stk, env.tables) = OkBool(FALSE)

\* the second table of the environment was copied and the script compiled
C17_Witness ==
    /\ GeneratedDoubleCreate
    /\ pc = "compiled"
    /\ Len(env.tables) = 2
    /\ prop.create.table = env.tables[2]
    /\ CallFunc(script[1].func, <<>>, env.tables) = OkBool(FALSE)

\* C18: a generated InsertSelect has insert.table equal to select.table
\* and to the name of a table of the environment it was generated from,
\* so its compiled assumption "table exists", which reads the table list
\* and not the result stack, is true in that unchanged environment.
C18_InsertSelectAssumptionTrue ==
    GeneratedInsertSelect =>
        /\ prop.insert.table = prop.select.table
        /\ \E i \in 1..Len(env.tables) :
              env.tables[i].name = prop.insert.table
        /\ Compiled =>
              /\ script[1].kind = "Assumption"
              /\ \A stk \in SomeStacks :
                    CallFunc(script[1].func, stk, env.tables) = OkBool(TRUE)

\* the second table of the environment was chosen and the script compiled
C18_Witness ==
    /\ GeneratedInsertSelect
    /\ pc = "compiled"
    /\ Len(env.tables) = 2
    /\ prop.insert.table = env.tables[2].name
    /\ prop.select.table = env.tables[2].name
    /\ CallFunc(script[1].func, <<>>, env.tables) = OkBool(TRUE)

====
